---- MODULE Spec2Model ----
(***************************************************************************)
(* A model of customize_icon_order.py: the interactive tool that reorders  *)
(* the tokens of the `scanfor` and `showtools` directives of refind.conf.  *)
(*                                                                         *)
(* Text is modelled at character level: a Python str is a sequence of      *)
(* one-character strings, so that strip, split, the detection pattern,     *)
(* int() and the newline handling of the text-mode file are computed the   *)
(* way the code computes them.  The file is opened in text mode with the   *)
(* default newline=None; the model takes os.linesep to be "\n" (POSIX).    *)
(***************************************************************************)
EXTENDS Integers, Sequences, FiniteSets

VARIABLES
    disk,           \* content of the file at `path`, as stored (characters)
    orig,           \* content of the file when the current run started
    pc,             \* position of the run inside process_file
    lines,          \* process_file: `lines`
    i,              \* process_file: 1-based position of the for loop in `lines`
    updated_lines,  \* process_file: `updated_lines`
    log,            \* one entry per call of reorder made by the current run
    call,           \* <<>> or <<c>>: the reorder call the last step made
    writes,         \* times the current run opened the file for writing
    run,            \* number of the current run of the program
    parse_in,       \* argument of a direct call of parse_directive
    parse_out,      \* its result
    format_out,     \* format_directive(name, parse_out)
    reparse_out     \* parse_directive(format_out)

vars == <<disk, orig, pc, lines, i, updated_lines, log, call, writes, run,
          parse_in, parse_out, format_out, reparse_out>>

----------------------------------------------------------------------------
(* Bounds of the model.                                                    *)

MaxLines == 2    \* lines of the configuration file
MaxItems == 3    \* tokens of the directive given to reorder
MaxWords == 3    \* words of a console response
MaxTail == 5     \* characters that follow the keyword of a parsed line
MaxRuns == 2     \* consecutive runs of the program on the same file

----------------------------------------------------------------------------
(* Characters and Python's str primitives.                                 *)

LF == "\n"
CR == "\r"
linesep == <<LF>>

Whitespace == {" ", "\t", LF, CR}
Digits == <<"0", "1", "2", "3", "4", "5", "6", "7", "8", "9">>
Upper == <<"A", "B", "C", "D", "E", "F", "G", "H", "I", "J", "K", "L", "M",
           "N", "O", "P", "Q", "R", "S", "T", "U", "V", "W", "X", "Y", "Z">>
Lower == <<"a", "b", "c", "d", "e", "f", "g", "h", "i", "j", "k", "l", "m",
           "n", "o", "p", "q", "r", "s", "t", "u", "v", "w", "x", "y", "z">>

Range(s) == {s[k] : k \in DOMAIN s}

DigitChars == Range(Digits)

WordChars == Range(Upper) \cup Range(Lower) \cup Range(Digits) \cup {"_"}

Min(S) == CHOOSE x \in S : \A y \in S : x <= y

\* Scans of a string from position k: the first position whose character is
\* (is not) in C, Len(s)+1 if none; the last position not in C, 0 if none.
RECURSIVE ScanIn(_, _, _)
ScanIn(s, C, k) ==
    IF k > Len(s) \/ s[k] \in C THEN k ELSE ScanIn(s, C, k + 1)

RECURSIVE ScanNotIn(_, _, _)
ScanNotIn(s, C, k) ==
    IF k > Len(s) \/ s[k] \notin C THEN k ELSE ScanNotIn(s, C, k + 1)

RECURSIVE ScanBackNotIn(_, _, _)
ScanBackNotIn(s, C, k) ==
    IF k < 1 \/ s[k] \notin C THEN k ELSE ScanBackNotIn(s, C, k - 1)

FirstIn(s, C) == ScanIn(s, C, 1)

FirstNotIn(s, C) == ScanNotIn(s, C, 1)

LastNotIn(s, C) == ScanBackNotIn(s, C, Len(s))

\* s.lstrip(chars)
LStrip(s, C) == SubSeq(s, FirstNotIn(s, C), Len(s))

\* s.rstrip()
RStrip(s, C) == SubSeq(s, 1, LastNotIn(s, C))

\* s.strip()
Strip(s) == RStrip(LStrip(s, Whitespace), Whitespace)

\* s.split(ch, 1)[0]
BeforeFirst(s, ch) == SubSeq(s, 1, FirstIn(s, {ch}) - 1)

\* s.split(None, 1)
SplitFirstWord(s) ==
    LET t == LStrip(s, Whitespace)
        k == FirstIn(t, Whitespace)
        rest == LStrip(SubSeq(t, k, Len(t)), Whitespace)
    IN  IF t = <<>> THEN <<>>
        ELSE IF rest = <<>> THEN <<SubSeq(t, 1, k - 1)>>
        ELSE <<SubSeq(t, 1, k - 1), rest>>

\* s.split(ch)
RECURSIVE SplitOn(_, _)
SplitOn(s, ch) ==
    LET k == FirstIn(s, {ch})
    IN  IF k > Len(s) THEN <<s>>
        ELSE <<SubSeq(s, 1, k - 1)>> \o SplitOn(SubSeq(s, k + 1, Len(s)), ch)

\* s.split()
RECURSIVE SplitWords(_)
SplitWords(s) ==
    LET t == LStrip(s, Whitespace)
        k == FirstIn(t, Whitespace)
    IN  IF t = <<>> THEN <<>>
        ELSE <<SubSeq(t, 1, k - 1)>> \o SplitWords(SubSeq(t, k, Len(t)))

\* sep.join(items)
RECURSIVE Join(_, _)
Join(items, sep) ==
    IF items = <<>> THEN <<>>
    ELSE IF Len(items) = 1 THEN items[1]
    ELSE items[1] \o sep \o Join(Tail(items), sep)

\* ''.join(items)
RECURSIVE Concat(_)
Concat(items) == IF items = <<>> THEN <<>> ELSE items[1] \o Concat(Tail(items))

\* [item.strip() for item in pieces if item.strip()]
RECURSIVE StrippedNonEmpty(_)
StrippedNonEmpty(pieces) ==
    IF pieces = <<>> THEN <<>>
    ELSE (IF Strip(pieces[1]) # <<>> THEN <<Strip(pieces[1])>> ELSE <<>>)
         \o StrippedNonEmpty(Tail(pieces))

ToLower(c) ==
    IF \E k \in DOMAIN Upper : Upper[k] = c
    THEN Lower[CHOOSE k \in DOMAIN Upper : Upper[k] = c]
    ELSE c

\* \w of the re module
WordChar(c) == c \in WordChars

DigitValue(c) == (CHOOSE k \in DOMAIN Digits : Digits[k] = c) - 1

RECURSIVE DecimalValue(_)
DecimalValue(ds) ==
    IF ds = <<>> THEN 0
    ELSE 10 * DecimalValue(SubSeq(ds, 1, Len(ds) - 1)) + DigitValue(ds[Len(ds)])

\* int(x) of a word of the response: an optional sign and decimal digits;
\* anything else raises ValueError (ok = FALSE).
PyInt(w) ==
    LET signed == w # <<>> /\ w[1] \in {"+", "-"}
        ds == IF signed THEN Tail(w) ELSE w
    IN  IF ds = <<>> \/ \E k \in DOMAIN ds : ds[k] \notin DigitChars
        THEN [ok |-> FALSE, val |-> 0]
        ELSE [ok |-> TRUE,
              val |-> IF signed /\ w[1] = "-" THEN 0 - DecimalValue(ds)
                      ELSE DecimalValue(ds)]

\* sorted(xs) for a list of integers
RECURSIVE Sorted(_)
Sorted(xs) ==
    IF xs = <<>> THEN <<>>
    ELSE LET m == Min(Range(xs))
             k == Min({j \in DOMAIN xs : xs[j] = m})
         IN  <<m>> \o Sorted(SubSeq(xs, 1, k - 1) \o SubSeq(xs, k + 1, Len(xs)))

----------------------------------------------------------------------------
(* The program's functions.                                                *)

scanfor == <<"s", "c", "a", "n", "f", "o", "r">>
showtools == <<"s", "h", "o", "w", "t", "o", "o", "l", "s">>

\* The inline comment is not removed.
parse_with_comment(line) ==
    LET parts == SplitFirstWord(line)
    IN  IF Len(parts) < 2 THEN <<>>
        ELSE StrippedNonEmpty(SplitOn(parts[2], ","))

parse_directive(line) ==
    LET nocomment == BeforeFirst(line, "#")
        parts == SplitFirstWord(nocomment)
    IN  IF Len(parts) < 2 THEN <<>>
        ELSE StrippedNonEmpty(SplitOn(parts[2], ","))

\* A space after each comma.
format_spaced(name, items) ==
    name \o <<" ">> \o Join(items, <<",", " ">>) \o <<LF>>

\* The "\n" that ends the line is left out.
format_unterminated(name, items) == name \o <<" ">> \o Join(items, <<",">>)

format_directive(name, items) == name \o <<" ">> \o Join(items, <<",">>) \o <<LF>>

\* The validation checks the range of the indices and their number, not
\* that they differ.
InRangeOnly(indices, n) ==
    Len(indices) = n /\ \A k \in DOMAIN indices : indices[k] \in 0..(n - 1)

\* The validation checks that the indices are in range and differ, not
\* their number.
DistinctOnly(indices, n) ==
    /\ \A k \in DOMAIN indices : indices[k] \in 0..(n - 1)
    /\ \A j, k \in DOMAIN indices : indices[j] = indices[k] => j = k

\* sorted(indices) == list(range(len(items)))
ValidOrder(indices, n) == Sorted(indices) = [k \in 1..n |-> k - 1]

\* The item k goes to place indices[k]: the inverse of the order asked for.
PickInverse(items, indices) ==
    [k \in DOMAIN indices |->
        items[CHOOSE j \in DOMAIN indices : indices[j] + 1 = k]]

\* [items[i] for i in indices]
Pick(items, indices) == [k \in DOMAIN indices |-> items[indices[k] + 1]]

\* reorder(items) when input() returns `response`; invalid is the message
\* "Invalid input; keeping existing order."
reorder(items, response) ==
    LET resp == Strip(response)
        words == SplitWords(resp)
        ints == [k \in DOMAIN words |-> PyInt(words[k])]
        indices == [k \in DOMAIN ints |-> ints[k].val - 1]
    IN  IF resp = <<>> THEN [ret |-> items, invalid |-> FALSE]
        ELSE IF \E k \in DOMAIN ints : ~ints[k].ok
        THEN [ret |-> items, invalid |-> TRUE]
        ELSE IF ~ValidOrder(indices, Len(items))
        THEN [ret |-> items, invalid |-> TRUE]
        ELSE [ret |-> Pick(items, indices), invalid |-> FALSE]

\* line.lstrip('#').lstrip()
Uncommented(line) == LStrip(LStrip(line, {"#"}), Whitespace)

\* directive_pattern.match(s): the matched group(1), or <<>> for None
DirectiveMatch(s) ==
    LET Hit(kw) ==
            /\ Len(s) >= Len(kw)
            /\ \A k \in 1..Len(kw) : ToLower(s[k]) = kw[k]
            /\ (Len(s) = Len(kw) \/ ~WordChar(s[Len(kw) + 1]))
    IN  IF Hit(scanfor) THEN SubSeq(s, 1, Len(scanfor))
        ELSE IF Hit(showtools) THEN SubSeq(s, 1, Len(showtools))
        ELSE <<>>

\* Text-mode read with newline=None: "\r\n" and "\r" become "\n".
RECURSIVE UniversalNewlines(_)
UniversalNewlines(s) ==
    IF s = <<>> THEN <<>>
    ELSE IF s[1] = CR
    THEN <<LF>> \o UniversalNewlines(
             IF Len(s) >= 2 /\ s[2] = LF THEN SubSeq(s, 3, Len(s)) ELSE Tail(s))
    ELSE <<s[1]>> \o UniversalNewlines(Tail(s))

\* The lines of a text, each with its "\n"
RECURSIVE SplitLines(_)
SplitLines(s) ==
    LET k == FirstIn(s, {LF})
    IN  IF s = <<>> THEN <<>>
        ELSE IF k > Len(s) THEN <<s>>
        ELSE <<SubSeq(s, 1, k)>> \o SplitLines(SubSeq(s, k + 1, Len(s)))

\* f.readlines()
readlines(content) == SplitLines(UniversalNewlines(content))

\* Text-mode write with newline=None: "\n" becomes os.linesep.
RECURSIVE EncodeNewlines(_)
EncodeNewlines(s) ==
    IF s = <<>> THEN <<>>
    ELSE (IF s[1] = LF THEN linesep ELSE <<s[1]>>) \o EncodeNewlines(Tail(s))

\* f.writelines(updated_lines)
writelines(ls) == EncodeNewlines(Concat(ls))

----------------------------------------------------------------------------
(* process_file as a state machine.                                        *)

\* match.group(1) for a line of the file, <<>> when the pattern fails
LineName(line) == DirectiveMatch(Uncommented(line))

LineItems(line) == parse_directive(Uncommented(line))

\* `if items:` left out
PromptsOnMatch(line) == LineName(line) # <<>>

\* `if match:` and `if items:` both taken
Prompts(line) == LineName(line) # <<>> /\ LineItems(line) # <<>>

\* open(path, 'r') and f.readlines() succeed
OpenRead ==
    /\ pc = "start"
    /\ lines' = readlines(disk)
    /\ i' = 1
    /\ updated_lines' = <<>>
    /\ pc' = "loop"
    /\ call' = <<>>
    /\ UNCHANGED <<disk, orig, log, writes, run,
                   parse_in, parse_out, format_out, reparse_out>>

\* open(path, 'r') raises (missing file, permission denied): the run ends
OpenReadFails ==
    /\ pc = "start"
    /\ pc' = "failed"
    /\ UNCHANGED <<disk, orig, lines, i, updated_lines, log, call, writes, run,
                   parse_in, parse_out, format_out, reparse_out>>

\* The loop saves every line as soon as it is processed.
KeepLineAndSave ==
    /\ pc = "loop"
    /\ i <= Len(lines)
    /\ ~Prompts(lines[i])
    /\ updated_lines' = Append(updated_lines, lines[i])
    /\ disk' = writelines(updated_lines')
    /\ i' = i + 1
    /\ call' = <<>>
    /\ UNCHANGED <<orig, pc, lines, log, writes, run,
                   parse_in, parse_out, format_out, reparse_out>>

\* One iteration of the loop that does not call reorder.
KeepLine ==
    /\ pc = "loop"
    /\ i <= Len(lines)
    /\ ~Prompts(lines[i])
    /\ updated_lines' = Append(updated_lines, lines[i])
    /\ i' = i + 1
    /\ call' = <<>>
    /\ UNCHANGED <<disk, orig, pc, lines, log, writes, run,
                   parse_in, parse_out, format_out, reparse_out>>

\* One iteration of the loop that calls reorder; input() returns one of the
\* responses the console can deliver.
ReorderLine(console) ==
    /\ pc = "loop"
    /\ i <= Len(lines)
    /\ Prompts(lines[i])
    /\ \E name \in {LineName(lines[i])}, items \in {LineItems(lines[i])} :
         \E response \in console :
           \E r \in {reorder(items, response)} :
             /\ updated_lines' =
                    Append(updated_lines, format_directive(name, r.ret))
             /\ log' = Append(log, [line |-> i, name |-> name,
                                    ret |-> r.ret, invalid |-> r.invalid])
             /\ call' = <<[items |-> items, response |-> response,
                           ret |-> r.ret, invalid |-> r.invalid]>>
    /\ i' = i + 1
    /\ UNCHANGED <<disk, orig, pc, lines, writes, run,
                   parse_in, parse_out, format_out, reparse_out>>

\* The run is interrupted, or input() raises at a prompt: the process ends.
Abort ==
    /\ pc \in {"loop", "writing"}
    /\ pc' = "aborted"
    /\ call' = <<>>
    /\ UNCHANGED <<disk, orig, lines, i, updated_lines, log, writes, run,
                   parse_in, parse_out, format_out, reparse_out>>

\* open(path, 'w') after the loop: the file is truncated
OpenWrite ==
    /\ pc = "loop"
    /\ i > Len(lines)
    /\ disk' = <<>>
    /\ writes' = writes + 1
    /\ pc' = "writing"
    /\ call' = <<>>
    /\ UNCHANGED <<orig, lines, i, updated_lines, log, run,
                   parse_in, parse_out, format_out, reparse_out>>

\* f.writelines(updated_lines) and the close of the file
WriteLines ==
    /\ pc = "writing"
    /\ disk' = writelines(updated_lines)
    /\ pc' = "done"
    /\ UNCHANGED <<orig, lines, i, updated_lines, log, call, writes, run,
                   parse_in, parse_out, format_out, reparse_out>>

\* The program is started again on the file the previous run wrote.
Rerun ==
    /\ pc = "done"
    /\ run < MaxRuns
    /\ run' = run + 1
    /\ orig' = disk
    /\ pc' = "start"
    /\ lines' = <<>>
    /\ i' = 0
    /\ updated_lines' = <<>>
    /\ log' = <<>>
    /\ call' = <<>>
    /\ writes' = 0
    /\ UNCHANGED <<disk, parse_in, parse_out, format_out, reparse_out>>

----------------------------------------------------------------------------
(* Direct calls of parse_directive and format_directive.                   *)

ParseStep ==
    /\ pc = "parse"
    /\ parse_out' = parse_directive(parse_in)
    /\ pc' = "format"
    /\ UNCHANGED <<disk, orig, lines, i, updated_lines, log, call, writes, run,
                   parse_in, format_out, reparse_out>>

FormatStep ==
    /\ pc = "format"
    /\ format_out' = format_directive(DirectiveMatch(parse_in), parse_out)
    /\ pc' = "reparse"
    /\ UNCHANGED <<disk, orig, lines, i, updated_lines, log, call, writes, run,
                   parse_in, parse_out, reparse_out>>

ReparseStep ==
    /\ pc = "reparse"
    /\ reparse_out' = parse_directive(format_out)
    /\ pc' = "parsed"
    /\ UNCHANGED <<disk, orig, lines, i, updated_lines, log, call, writes, run,
                   parse_in, parse_out, format_out>>

----------------------------------------------------------------------------
(* Inputs.                                                                 *)

SeqsUpTo(S, n) == UNION {[1..k -> S] : k \in 0..n}

\* Line bodies of the configuration files of Spec and SpecKeep.
LineBodies ==
    { <<>>,
      <<"m", "e", "n", "u", " ", "a", ",", "b">>,
      <<"s", "c", "a", "n", "f", "o", "r", " ", "a", ",", "b">>,
      <<"#", "s", "c", "a", "n", "f", "o", "r", " ", "b", " ", ",", " ", "a", " ", "#", "c">>,
      <<"s", "h", "o", "w", "t", "o", "o", "l", "s">>,
      <<"S", "h", "o", "w", "T", "o", "o", "l", "s", " ", "b", ",", "a">>,
      <<"s", "c", "a", "n", "f", "o", "r", "-", "x", " ", "a", ",", "b">>,
      <<"s", "c", "a", "n", "f", "o", "r", "x", " ", "a", ",", "b">>,
      <<"#", " ", "s", "c", "a", "n", "f", "o", "r", " ", ",">> }

\* The file with the given line bodies, line terminator and last terminator.
FileOf(bodies, eol, final) ==
    Concat([k \in 1..Len(bodies) |->
               bodies[k] \o (IF k = Len(bodies) /\ ~final THEN <<>> ELSE eol)])

Files ==
    { FileOf(bodies, eol, final) :
        bodies \in SeqsUpTo(LineBodies, MaxLines),
        eol \in {<<LF>>, <<CR, LF>>},
        final \in BOOLEAN }

\* Console responses of Spec.
Responses ==
    { <<>>, <<"2", " ", "1">>, <<"1", " ", "x">> }

\* Console responses of SpecReorder: up to MaxWords words, separated by single
\* spaces, or by runs of whitespace with whitespace around the response.
Words ==
    { <<"0">>, <<"1">>, <<"2">>, <<"3">>, <<"4">>, <<"x">>, <<"0", "2">> }

ResponseOf(words, wide) ==
    IF wide THEN <<" ">> \o Join(words, <<" ", "\t">>) \o <<" ">>
    ELSE Join(words, <<" ">>)

AllResponses ==
    { ResponseOf(words, wide) :
        words \in SeqsUpTo(Words, MaxWords), wide \in BOOLEAN }

Tokens == { <<"a">>, <<"b">> }

ExampleItems ==
    << <<"i", "n", "t", "e", "r", "n", "a", "l">>,
       <<"h", "d", "b", "i", "o", "s">>,
       <<"b", "i", "o", "s", "e", "x", "t", "e", "r", "n", "a", "l">> >>

\* Token lists given to reorder: duplicates allowed; every list over two
\* tokens, and the list of the documented scenario.
ItemLists == (SeqsUpTo(Tokens, MaxItems) \ {<<>>}) \cup {ExampleItems}

\* Arguments of the direct calls of parse_directive: directive lines.
TailChars == {" ", ",", "a", "b", "#", LF}

ExampleLine ==
    <<"s", "c", "a", "n", "f", "o", "r", " ", "m", "a", "n", "u", "a", "l", ",",
      "i", "n", "t", "e", "r", "n", "a", "l", " ", "#", " ",
      "c", "o", "m", "m", "e", "n", "t">>

ParseInputs ==
    { head \o tail :
        head \in {scanfor},
        tail \in {t \in SeqsUpTo(TailChars, MaxTail) :
                     t = <<>> \/ ~WordChar(t[1])} }
    \cup {ExampleLine}

----------------------------------------------------------------------------
(* Specifications.                                                         *)

InitRun ==
    /\ orig = disk
    /\ pc = "start"
    /\ lines = <<>>
    /\ i = 0
    /\ updated_lines = <<>>
    /\ log = <<>>
    /\ call = <<>>
    /\ writes = 0
    /\ run = 1
    /\ parse_in = <<>>
    /\ parse_out = <<>>
    /\ format_out = <<>>
    /\ reparse_out = <<>>

\* One run of the program on a configuration file.
Init == disk \in Files /\ InitRun

Next ==
    \/ OpenRead
    \/ OpenReadFails
    \/ KeepLine
    \/ ReorderLine(Responses)
    \/ Abort
    \/ OpenWrite
    \/ WriteLines

Spec == Init /\ [][Next]_vars

\* reorder under every response: a file with one directive line and one
\* line after it.
InitReorder ==
    /\ disk \in { format_directive(scanfor, items) \o <<"x", LF>> :
                    items \in ItemLists }
    /\ InitRun

NextReorder ==
    \/ OpenRead
    \/ OpenReadFails
    \/ KeepLine
    \/ ReorderLine(AllResponses)
    \/ Abort
    \/ OpenWrite
    \/ WriteLines

SpecReorder == InitReorder /\ [][NextReorder]_vars

\* The user presses Enter at every prompt, and runs the program again.
NextKeep ==
    \/ OpenRead
    \/ OpenReadFails
    \/ KeepLine
    \/ ReorderLine({<<>>})
    \/ Abort
    \/ OpenWrite
    \/ WriteLines
    \/ Rerun

SpecKeep == Init /\ [][NextKeep]_vars

\* parse_directive and format_directive called on directive lines.
InitParse ==
    /\ parse_in \in ParseInputs
    /\ pc = "parse"
    /\ parse_out = <<>>
    /\ format_out = <<>>
    /\ reparse_out = <<>>
    /\ disk = <<>>
    /\ orig = <<>>
    /\ lines = <<>>
    /\ i = 0
    /\ updated_lines = <<>>
    /\ log = <<>>
    /\ call = <<>>
    /\ writes = 0
    /\ run = 1

NextParse == ParseStep \/ FormatStep \/ ReparseStep

SpecParse == InitParse /\ [][NextParse]_vars

----------------------------------------------------------------------------
(* Vocabulary of the properties.                                           *)

\* The lines of a stored file as its bytes give them: each ends after "\n".
OrigLines == SplitLines(orig)

WrittenLines == SplitLines(disk)

\* Positions 1..n of `lines` at which the loop calls reorder, in file order.
PromptingLines(n) ==
    LET Asks(j) == /\ DirectiveMatch(Uncommented(lines[j])) # <<>>
                   /\ parse_directive(Uncommented(lines[j])) # <<>>
    IN  SelectSeq([j \in 1..n |-> j], Asks)

Count(t, items) == Cardinality({k \in DOMAIN items : items[k] = t})

Orderings(n) ==
    {p \in [1..n -> 1..n] : \A j, k \in 1..n : p[j] = p[k] => j = k}

\* The spellings of the 1-based positions p among the words of a response:
\* each position as its digit, with or without a leading zero.
Spellings(p) ==
    { [k \in DOMAIN p |-> IF zero[k] THEN <<"0", Digits[p[k] + 1]>>
                                      ELSE <<Digits[p[k] + 1]>>] :
        zero \in [DOMAIN p -> BOOLEAN] }

\* For each length n, the pairs <<p, response>> in which the response spells
\* the permutation p of 1..n, its positions separated by whitespace.
SpelledOrders ==
    [n \in 1..MaxItems |->
        UNION { { <<p, ResponseOf(ws, wide)>> :
                    ws \in Spellings(p), wide \in BOOLEAN } :
                p \in Orderings(n) }]

\* s without its whitespace
NoBlanks(s) == LET Inked(c) == c \notin Whitespace IN SelectSeq(s, Inked)

\* t occurs in s as a contiguous piece
Occurs(t, s) ==
    \E o \in 0..(Len(s) - Len(t)) : SubSeq(s, o + 1, o + Len(t)) = t

\* `<name> t1,...,tN` plus "\n": the form format_directive gives a directive
\* with the tokens t1..tN, N >= 1.
InFormatterForm(line) ==
    LET name == DirectiveMatch(line)
        body == SubSeq(line, Len(name) + 2, Len(line) - 1)
        pieces == SplitOn(body, ",")
    IN  /\ name # <<>>
        /\ Len(line) >= Len(name) + 3
        /\ line[Len(name) + 1] = " "
        /\ line[Len(line)] = LF
        /\ \A k \in DOMAIN pieces :
              /\ pieces[k] # <<>>
              /\ pieces[k][1] \notin Whitespace
              /\ pieces[k][Len(pieces[k])] \notin Whitespace
              /\ Range(pieces[k]) \cap {"#", LF, CR} = {}

----------------------------------------------------------------------------
(* C1: the file is opened for writing at most once, only after the loop    *)
(* has processed every line; until then, in every state of the run and in  *)
(* every state in which it ended (read failure, interrupt, input failure), *)
(* the stored file is the original one.                                    *)
C1_WriteOnceAfterProcessing ==
    /\ writes <= 1
    /\ writes = 0 => disk = orig
    /\ pc \in {"start", "loop", "failed"} => writes = 0
    /\ writes = 1 => /\ pc \in {"writing", "done", "aborted"}
                     /\ lines = readlines(orig)
                     /\ i = Len(lines) + 1
                     /\ Len(updated_lines) = Len(lines)

\* A run aborted in the middle of the loop, after a line was rewritten in
\* memory.
C1_Witness ==
    /\ pc = "aborted"
    /\ writes = 0
    /\ i <= Len(lines)
    /\ \E k \in DOMAIN updated_lines : updated_lines[k] # lines[k]

----------------------------------------------------------------------------
(* C2: when the response spells 1-based positions p1..pN that are a        *)
(* permutation of 1..N, reorder returns the list whose k-th element is     *)
(* T[p_k] and reports nothing.                                             *)
C2_PermutationApplied ==
    call # <<>> =>
        \A e \in SpelledOrders[Len(call[1].items)] :
            e[2] = call[1].response =>
                /\ call[1].ret = [k \in DOMAIN e[1] |-> call[1].items[e[1][k]]]
                /\ ~call[1].invalid

\* The documented scenario: internal,hdbios,biosexternal and "2 1 3".
C2_Witness ==
    /\ call # <<>>
    /\ call[1].items = ExampleItems
    /\ call[1].response = <<"2", " ", "1", " ", "3">>
    /\ call[1].ret = <<ExampleItems[2], ExampleItems[1], ExampleItems[3]>>

----------------------------------------------------------------------------
(* C3, amended: a response that is not empty once its surrounding          *)
(* whitespace is removed and does not spell a permutation of 1..N makes    *)
(* reorder return T unchanged and report invalid input; the run goes on    *)
(* with the next line, and the final write stays possible.                 *)
C3_InvalidKeepsOrder ==
    /\ (call # <<>>
        /\ (\E k \in DOMAIN call[1].response :
               call[1].response[k] \notin Whitespace)
        /\ ~\E e \in SpelledOrders[Len(call[1].items)] :
               e[2] = call[1].response)
       => /\ call[1].ret = call[1].items
          /\ call[1].invalid
          /\ pc = "loop"
          /\ Len(updated_lines) = i - 1
    /\ ((\E k \in DOMAIN log : log[k].invalid) /\ pc = "loop" /\ i > Len(lines))
       => ENABLED OpenWrite

\* C3 as stated, for every non-empty response: a response of whitespace
\* only is not empty and gives no permutation.
C3_AsClaimed ==
    (call # <<>>
     /\ call[1].response # <<>>
     /\ ~\E e \in SpelledOrders[Len(call[1].items)] :
            e[2] = call[1].response)
    => /\ call[1].ret = call[1].items
       /\ call[1].invalid

\* A run that got an invalid response and wrote the file.
C3_Witness ==
    /\ pc = "done"
    /\ \E k \in DOMAIN log : log[k].invalid
    /\ Len(SplitLines(disk)) = 2

----------------------------------------------------------------------------
(* C4: whatever the response, the list reorder returns has the length of   *)
(* T and holds every token as many times as T does.                        *)
C4_SameMultiset ==
    call # <<>> =>
        /\ Len(call[1].ret) = Len(call[1].items)
        /\ \A t \in Range(call[1].items) \cup Range(call[1].ret) :
              Count(t, call[1].ret) = Count(t, call[1].items)

\* A list with a duplicate token that a response reordered.
C4_Witness ==
    /\ call # <<>>
    /\ call[1].ret # call[1].items
    /\ \E j, k \in DOMAIN call[1].items :
          j # k /\ call[1].items[j] = call[1].items[k]

----------------------------------------------------------------------------
(* C5: after a complete run the written file has as many lines as the      *)
(* original, and every line that is not a directive line with tokens is,   *)
(* at its position, byte for byte the original line, line ending included. *)
C5_OtherLinesByteIdentical ==
    pc = "done" =>
        /\ Len(WrittenLines) = Len(OrigLines)
        /\ \A j \in DOMAIN OrigLines :
              (DirectiveMatch(Uncommented(OrigLines[j])) = <<>>
               \/ parse_directive(Uncommented(OrigLines[j])) = <<>>)
              => (j <= Len(WrittenLines) /\ WrittenLines[j] = OrigLines[j])

----------------------------------------------------------------------------
(* C6: after a complete run every directive line with tokens stands in the *)
(* written file as `<name> t1,...,tN` and one "\n": name the matched       *)
(* keyword, t1..tN what reorder returned; it holds no "#", so the comment  *)
(* marker and an inline comment are gone whatever the response was.        *)
C6_DirectiveRewritten ==
    pc = "done" =>
        /\ Len(WrittenLines) = Len(lines)
        /\ \A j \in DOMAIN lines :
              (DirectiveMatch(Uncommented(lines[j])) # <<>>
               /\ parse_directive(Uncommented(lines[j])) # <<>>)
              => \E k \in DOMAIN log :
                    /\ log[k].line = j
                    /\ log[k].name = DirectiveMatch(Uncommented(lines[j]))
                    /\ WrittenLines[j] =
                         log[k].name \o <<" ">> \o Join(log[k].ret, <<",">>)
                                     \o <<LF>>
                    /\ "#" \notin Range(WrittenLines[j])
                    /\ \A c \in 2..(Len(WrittenLines[j]) - 1) :
                          WrittenLines[j][c] = ","
                          => /\ WrittenLines[j][c - 1] \notin Whitespace
                             /\ WrittenLines[j][c + 1] \notin Whitespace

\* A commented-out directive with an inline comment, order kept with Enter.
C6_Witness ==
    /\ pc = "done"
    /\ \E k \in DOMAIN log :
          /\ lines[log[k].line][1] = "#"
          /\ "#" \in Range(Tail(lines[log[k].line]))
          /\ log[k].ret = parse_directive(Uncommented(lines[log[k].line]))

----------------------------------------------------------------------------
\* The inputs read so far are those of the directive lines with tokens among
\* the lines processed so far, in file order.
C7_Inputs ==
    /\ pc \in {"start", "failed"} => log = <<>>
    /\ pc \in {"loop", "writing", "done", "aborted"}
       => [k \in DOMAIN log |-> log[k].line] = PromptingLines(i - 1)
    /\ pc \in {"writing", "done"} => i = Len(lines) + 1

\* A step that reads an input reads one, after the read of the file and
\* before the file is opened for writing.
C7_InputStep ==
    log' # log => /\ Len(log') = Len(log) + 1
                  /\ pc = "loop"
                  /\ lines = readlines(disk)
                  /\ writes = 0
                  /\ disk = orig

(* C7: the run reads one console input for each directive line with        *)
(* tokens and for no other line, in file order, and every input is read    *)
(* after the file was read and before it is opened for writing.            *)
C7_OneInputPerDirective == []C7_Inputs /\ [][C7_InputStep]_vars

\* A complete run on two lines that read one input, for the second line.
C7_Witness ==
    /\ pc = "done"
    /\ Len(lines) = 2
    /\ Len(log) = 1
    /\ log[1].line = 2

----------------------------------------------------------------------------
(* C8: parse_directive returns the comma-separated pieces that follow the  *)
(* first word and precede the first "#": non-empty, trimmed, in order,     *)
(* each a piece of the line as written; and parsing the formatted result   *)
(* gives the same tokens again.                                            *)
C8_ParseRoundTrip ==
    LET nocomment ==
            SubSeq(parse_in, 1,
                   Min({k \in DOMAIN parse_in : parse_in[k] = "#"}
                       \cup {Len(parse_in) + 1}) - 1)
        wordend ==
            Min({k \in DOMAIN nocomment : nocomment[k] \in Whitespace}
                \cup {Len(nocomment) + 1})
        pieces == SplitOn(NoBlanks(SubSeq(nocomment, wordend, Len(nocomment))),
                          ",")
        Inked(piece) == piece # <<>>
    IN  /\ pc \in {"format", "reparse", "parsed"} =>
              /\ \A k \in DOMAIN parse_out :
                    /\ parse_out[k] # <<>>
                    /\ parse_out[k][1] \notin Whitespace
                    /\ parse_out[k][Len(parse_out[k])] \notin Whitespace
                    /\ Range(parse_out[k]) \cap {",", "#"} = {}
                    /\ Occurs(parse_out[k], parse_in)
              /\ [k \in DOMAIN parse_out |-> NoBlanks(parse_out[k])]
                    = SelectSeq(pieces, Inked)
        /\ pc = "parsed" => reparse_out = parse_out

\* The documented line with an inline comment.
C8_Witness ==
    /\ pc = "parsed"
    /\ parse_in = ExampleLine
    /\ parse_out = << <<"m", "a", "n", "u", "a", "l">>,
                      <<"i", "n", "t", "e", "r", "n", "a", "l">> >>
    /\ reparse_out = parse_out

----------------------------------------------------------------------------
(* C9: with an empty response reorder returns T unchanged, so a directive  *)
(* line already in the formatter's form is byte-identical after the run;   *)
(* and a second run with empty responses leaves the file the first run     *)
(* wrote byte-identical.                                                   *)
C9_EnterIsIdempotent ==
    /\ call # <<>> => (call[1].ret = call[1].items /\ ~call[1].invalid)
    /\ pc = "done" =>
          \A j \in DOMAIN OrigLines :
              InFormatterForm(OrigLines[j])
              => (j <= Len(WrittenLines) /\ WrittenLines[j] = OrigLines[j])
    /\ (pc = "done" /\ run >= 2) => disk = orig

\* A second complete run that offered a line in the formatter's form.
C9_Witness ==
    /\ pc = "done"
    /\ run = 2
    /\ \E k \in DOMAIN log : InFormatterForm(OrigLines[log[k].line])

----------------------------------------------------------------------------
(* C10: on every line the run rewrites, the first whitespace-delimited     *)
(* word that parse_directive discards is exactly the matched directive     *)
(* name.                                                                   *)
C10_KeywordIsFirstWord ==
    \A k \in DOMAIN log :
        SplitFirstWord(BeforeFirst(Uncommented(lines[log[k].line]), "#"))[1]
            = log[k].name

====
